---- MODULE Spec2Model ----
(***************************************************************************)
(* A model of ebay_stock_scraper.py: the Challenge & Retry Controller of   *)
(* both engines (process_variants_requests, process_variants_chromium),    *)
(* the interactive visit it drives, the static detector, and the variant   *)
(* descriptor builder (load_variants_from_excel).                          *)
(*                                                                         *)
(* Spec      one call of process_variants_requests or                      *)
(*           process_variants_chromium on a list of descriptors.           *)
(* LoadSpec  one call of load_variants_from_excel on a feed.               *)
(*                                                                         *)
(* Conventions.  Python None is the string None for optional text fields   *)
(* and the empty sequence NoMessage for error_message.  A message is a     *)
(* sequence of text pieces (the literal parts of the format string and     *)
(* the interpolated values), so that `keyword in message` can be decided   *)
(* piece by piece.  Python list indices are 0-based, the model's 1-based.  *)
(***************************************************************************)
EXTENDS Integers, Sequences, FiniteSets, TLC

VARIABLES
    engine,          \* args.engine: which process_variants_* function runs
    max_retries,     \* max_retries argument
    records,         \* records argument: the list of VariantRecord
    pc,              \* position of the running function
    index,           \* enumerate(records, start=1) position
    attempts,        \* attempts local
    availability,    \* availability local
    error_message,   \* error_message local
    results,         \* results list
    paced,           \* history: the pacing sleeps made after result rows
    session,         \* interactive browser/context: none, open, closed
    page_closed,     \* the page or browser has been closed under the run
    dims,            \* dimensions_with_group, sorted by group index
    k,               \* position of the selection loop in dims
    used_indices,    \* used_indices local
    last_outcome,    \* history: how the latest attempt of this descriptor ended
    all_challenge,   \* history: every attempt of this descriptor hit a challenge
    sel_log,         \* history: the selections made in the latest visit
    disabled_at,     \* history: the attempt whose first selection met a disabled option
    exhausted_at,    \* history: some descriptor's attempts all hit a challenge
    feed,            \* the data rows of the sheet (after the header data row)
    df,              \* df after the listing_url filter of lines 239-240
    idx,             \* enumerate(df.itertuples, start=1) position
    last_variation_by_listing,
    history_records,
    out_records,     \* the records list returned
    start_row,       \* start_row argument
    limit,           \* limit argument: << >> for None, <<n>> for n
    lpc,             \* position of load_variants_from_excel
    call,            \* a function of the module called on its own: name and arguments
    ret,             \* what the call returned
    fpc              \* position of the call

runvars == <<engine, max_retries, records, pc, index, attempts, availability,
             error_message, results, paced, session, page_closed, dims, k,
             used_indices, last_outcome, all_challenge, sel_log, disabled_at,
             exhausted_at>>
loadvars == <<feed, df, idx, last_variation_by_listing, history_records,
              out_records, start_row, limit, lpc>>
callvars == <<call, ret, fpc>>
vars == <<runvars, loadvars, callvars>>
inputs == <<engine, max_retries, records>>
visit == <<dims, k, used_indices>>
hist == <<last_outcome, all_challenge, sel_log, disabled_at, exhausted_at>>

None == "<None>"
NoMessage == << >>

(***************************************************************************)
(* Bounds of the model.                                                    *)
(***************************************************************************)
MaxRecords == 2
MaxRetries == 1
MaxGroups == 2

Min(S) == CHOOSE x \in S : \A y \in S : x <= y

SeqsUpTo(S, n) == UNION {[1..m -> S] : m \in 0..n}

(***************************************************************************)
(* Keyword search in a message: `kw in text.lower()`.  PieceHas(p, kw) is  *)
(* the substring test on one piece of text, tabulated for the pieces the   *)
(* model uses; no keyword of the model straddles two pieces.               *)
(***************************************************************************)
PieceHas(p, kw) ==
    CASE kw = "disabled"     -> p \in {"Option disabled",
                                       "Option marked out of stock (disabled class)",
                                       "Option marked out of stock (aria-disabled=true)",
                                       "Add to basket disabled"}
      [] kw = "aria-disabled" -> p = "Option marked out of stock (aria-disabled=true)"
      [] kw = "out of stock"  -> p \in {"Grey (out of stock)",
                                        "Option marked out of stock (disabled class)",
                                        "Option marked out of stock (aria-disabled=true)",
                                        "Label indicates out of stock",
                                        "Out of stock"}
      [] kw = "unavailable"   -> p = "Currently unavailable"
      [] kw = "add to basket disabled" -> p = "Add to basket disabled"
      [] OTHER -> FALSE

Contains(msg, kw) == \E i \in 1..Len(msg) : PieceHas(msg[i], kw)

(***************************************************************************)
(* Static availability detector.                                           *)
(***************************************************************************)
AvailabilityTokens ==
    <<"http://schema.org/InStock", "http://schema.org/OutOfStock",
      "InStock", "OutOfStock", "AVAILABLE", "UNAVAILABLE">>

AVAILABILITY_STRINGS(value) ==
    CASE value \in {"http://schema.org/InStock", "InStock", "AVAILABLE"} -> "IN_STOCK"
      [] value \in {"http://schema.org/OutOfStock", "OutOfStock", "UNAVAILABLE"} -> "OUT_OF_STOCK"
      [] OTHER -> None

\* A JSON value that is not a string (isinstance(value, str) is false).
NonStr == "<non-string>"
IsStr(v) == v \notin {None, NonStr}

\* As parse_availability_from_json, returning the value found instead of the
\* status it maps to.
parse_availability_raw(data) ==
    LET a == IF IsStr(data.availability) /\ AVAILABILITY_STRINGS(data.availability) # None
             THEN data.availability ELSE None
        t == IF IsStr(data.availabilityType) /\ AVAILABILITY_STRINGS(data.availabilityType) # None
             THEN data.availabilityType ELSE None
        o == IF IsStr(data.offers) /\ AVAILABILITY_STRINGS(data.offers) # None
             THEN data.offers ELSE None
    IN  IF a # None THEN a ELSE IF t # None THEN t ELSE o

\* data: [availability, availabilityType, offers]; offers is the value of
\* offers["availability"], None when offers is absent or not a dict.
parse_availability_from_json(data) ==
    LET a == IF IsStr(data.availability) THEN AVAILABILITY_STRINGS(data.availability) ELSE None
        t == IF IsStr(data.availabilityType) THEN AVAILABILITY_STRINGS(data.availabilityType) ELSE None
        o == IF IsStr(data.offers) THEN AVAILABILITY_STRINGS(data.offers) ELSE None
    IN  IF a # None THEN a ELSE IF t # None THEN t ELSE o

\* The first entry of a payload's dicts that yields an availability.
RECURSIVE FirstAvailability(_)
FirstAvailability(entries) ==
    IF entries = << >> THEN None
    ELSE LET a == parse_availability_from_json(Head(entries))
         IN  IF a # None THEN a ELSE FirstAvailability(Tail(entries))

\* payload: [kind, entries]; kind "invalid" is a block json.loads rejects,
\* "dict" holds one entry, "list" its dict entries in order, "other" any
\* other JSON value.
PayloadAvailability(payload) ==
    IF payload.kind \in {"dict", "list"} THEN FirstAvailability(payload.entries) ELSE None

\* As StructuredAvailability, giving up at a block json.loads rejects.
RECURSIVE StructuredAvailability_stop_at_invalid(_)
StructuredAvailability_stop_at_invalid(ld) ==
    IF ld = << >> THEN None
    ELSE IF Head(ld).kind = "invalid" THEN None
    ELSE LET a == PayloadAvailability(Head(ld))
         IN  IF a # None THEN a ELSE StructuredAvailability_stop_at_invalid(Tail(ld))

\* Lines 391-405: the scan of the ld+json blocks.
RECURSIVE StructuredAvailability(_)
StructuredAvailability(ld) ==
    IF ld = << >> THEN None
    ELSE LET a == PayloadAvailability(Head(ld))
         IN  IF a # None THEN a ELSE StructuredAvailability(Tail(ld))

\* `token in html` for the vocabulary tokens written in the raw document.
TokenWithin(a, b) ==
    \/ a = b
    \/ a = "InStock" /\ b = "http://schema.org/InStock"
    \/ a = "OutOfStock" /\ b = "http://schema.org/OutOfStock"
    \/ a = "AVAILABLE" /\ b = "UNAVAILABLE"

TokenInHtml(token, raw) == \E t \in raw : TokenWithin(token, t)

RawFallback(raw) ==
    LET hits == {i \in 1..Len(AvailabilityTokens) : TokenInHtml(AvailabilityTokens[i], raw)}
    IN  IF hits = {} THEN "UNKNOWN" ELSE AVAILABILITY_STRINGS(AvailabilityTokens[Min(hits)])

\* As detect_availability, reading the visible text before the ld+json
\* blocks.
detect_availability_text_first(doc) ==
    IF "out of stock" \in doc.text THEN "OUT_OF_STOCK"
    ELSE IF "in stock" \in doc.text \/ "last one" \in doc.text THEN "IN_STOCK"
    ELSE IF StructuredAvailability(doc.ld) # None THEN StructuredAvailability(doc.ld)
    ELSE IF doc.raw_key THEN RawFallback(doc.raw)
    ELSE "UNKNOWN"

\* doc: [ld, text, raw_key, raw]: the ld+json payloads in order, the stock
\* phrases of the rendered text, whether the raw html holds "availability":,
\* and the vocabulary tokens written in the raw html.
detect_availability(doc) ==
    LET s == StructuredAvailability(doc.ld)
    IN  IF s # None THEN s
        ELSE IF "out of stock" \in doc.text THEN "OUT_OF_STOCK"
        ELSE IF "in stock" \in doc.text \/ "last one" \in doc.text THEN "IN_STOCK"
        ELSE IF doc.raw_key THEN RawFallback(doc.raw)
        ELSE "UNKNOWN"

NoData == [availability |-> None, availabilityType |-> None, offers |-> None]
DictPayload(d) == [kind |-> "dict", entries |-> <<d>>]
InvalidPayload == [kind |-> "invalid", entries |-> << >>]

\* The documents the run fetches.
RunDocs ==
    { [ld |-> <<DictPayload([NoData EXCEPT !.availability = "http://schema.org/OutOfStock"])>>,
       text |-> {"in stock"}, raw_key |-> TRUE, raw |-> {"http://schema.org/OutOfStock"}],
      [ld |-> <<InvalidPayload, DictPayload([NoData EXCEPT !.offers = "InStock"])>>,
       text |-> {}, raw_key |-> TRUE, raw |-> {"InStock"}],
      [ld |-> << >>, text |-> {"out of stock"}, raw_key |-> FALSE, raw |-> {}],
      [ld |-> << >>, text |-> {"last one"}, raw_key |-> FALSE, raw |-> {}],
      [ld |-> <<DictPayload([NoData EXCEPT !.availability = "Discontinued"])>>,
       text |-> {}, raw_key |-> TRUE, raw |-> {}],
      [ld |-> << >>, text |-> {}, raw_key |-> FALSE, raw |-> {}] }

\* Lines 94-101.
CHALLENGE_MARKERS_LOWER ==
    {"pardon our interruption", "captcha", "ebay-static-captcha", "challenge"}

\* What response.text says around the markup of the document.
Bodies == {"Item page", "Pardon Our Interruption", "Security CAPTCHA"}

\* Line 363: text.lower(), for the bodies of the model.
lowered(text) ==
    CASE text = "Item page" -> "item page"
      [] text = "Pardon Our Interruption" -> "pardon our interruption"
      [] text = "Security CAPTCHA" -> "security captcha"
      [] OTHER -> text

\* `marker in text` for the markers and the bodies of the model.
MarkerIn(marker, text) ==
    \/ marker = "pardon our interruption" /\ text = "pardon our interruption"
    \/ marker = "captcha" /\ text = "security captcha"

\* session.get(url): a response, or an exception of the transport.
Responses == [status_code : {200, 503}, body : Bodies, doc : RunDocs]

\* As fetch_listing_html, looking for the challenge markers before the
\* status code.
fetch_listing_html_markers_first(response) ==
    IF \E marker \in CHALLENGE_MARKERS_LOWER : MarkerIn(marker, lowered(response.body))
    THEN "ChallengeDetected"
    ELSE IF response.status_code # 200 THEN "HTTPError"
    ELSE "text"

\* fetch_listing_html on a response: the exception it raises, or "text".
fetch_listing_html(response) ==
    IF response.status_code # 200 THEN "HTTPError"
    ELSE IF \E marker \in CHALLENGE_MARKERS_LOWER : MarkerIn(marker, lowered(response.body))
    THEN "ChallengeDetected"
    ELSE "text"

(***************************************************************************)
(* Interactive selection engine.                                           *)
(***************************************************************************)
GROUP_KEYWORDS(dimension) ==
    CASE dimension = "size" -> {"size", "length", "dimensions"}
      [] dimension = "variation" -> {"colour", "color", "design", "style", "pattern"}
      [] OTHER -> {}

\* The group labels collect_variant_groups reads from the page.
GroupLabels == {"Colour", "Size", "Material"}

\* `keyword in normalize_label(label)` for the labels of the model.
LabelHas(label, keyword) ==
    \/ label = "Colour" /\ keyword = "colour"
    \/ label = "Size" /\ keyword = "size"

\* Returns the index of the group, 0 for None.
find_group_for_dimension(groups, dimension, used) ==
    LET keyed == {i \in 1..Len(groups) :
                    /\ i \notin used
                    /\ \E kw \in GROUP_KEYWORDS(dimension) : LabelHas(groups[i], kw)}
        unused == {i \in 1..Len(groups) : i \notin used}
    IN  IF keyed # {} THEN Min(keyed)
        ELSE IF unused # {} THEN Min(unused)
        ELSE 0

DimEntry(g, t, v) == [group_idx |-> g, dim_type |-> t, dim_value |-> v]

\* As dimensions_with_group, without the sort of line 936: variation before
\* size whatever their groups.
dimensions_with_group_unsorted(record, groups) ==
    LET gv == IF record.variation # None
              THEN find_group_for_dimension(groups, "variation", {}) ELSE 0
        gs == IF record.size # None
              THEN find_group_for_dimension(groups, "size", {}) ELSE 0
        v  == IF gv # 0 THEN <<DimEntry(gv, "variation", record.variation)>> ELSE << >>
        z  == IF gs # 0 THEN <<DimEntry(gs, "size", record.size)>> ELSE << >>
    IN  v \o z

\* Lines 913-936: the (group_idx, dim_type, dim_value) list, variation
\* before size, then sorted by group index (list.sort is stable).
dimensions_with_group(record, groups) ==
    LET gv == IF record.variation # None
              THEN find_group_for_dimension(groups, "variation", {}) ELSE 0
        gs == IF record.size # None
              THEN find_group_for_dimension(groups, "size", {}) ELSE 0
        v  == IF gv # 0 THEN <<DimEntry(gv, "variation", record.variation)>> ELSE << >>
        z  == IF gs # 0 THEN <<DimEntry(gs, "size", record.size)>> ELSE << >>
        u  == v \o z
    IN  IF Len(u) = 2 /\ u[2].group_idx < u[1].group_idx THEN <<u[2], u[1]>> ELSE u

\* What select_option_from_group finds in a group's control when it is
\* called: the control kind, whether the selector button exists, whether an
\* option matches the target, the matched option's markers, and whether the
\* click on it times out.
Control(type, button, matched, da, cd, ad, oos, ct) ==
    [type |-> type, button |-> button, matched |-> matched, disabled_attr |-> da,
     class_disabled |-> cd, aria_disabled |-> ad, text_oos |-> oos, click_timeout |-> ct]

Controls ==
    {Control("select", FALSE, FALSE, FALSE, FALSE, FALSE, FALSE, FALSE)}
    \cup {Control("select", FALSE, TRUE, da, FALSE, FALSE, FALSE, FALSE) : da \in BOOLEAN}
    \cup {Control("vim", b, FALSE, FALSE, FALSE, FALSE, FALSE, FALSE) : b \in BOOLEAN}
    \cup {Control("vim", TRUE, TRUE, FALSE, c[1], c[2], c[3], FALSE) : c \in BOOLEAN \X BOOLEAN \X BOOLEAN}
    \cup {Control("vim", TRUE, TRUE, FALSE, FALSE, FALSE, FALSE, TRUE)}

\* An option of a control, as select_option_from_group sees it against the
\* target: whether its visible text matches, whether its data-sku-value-name
\* is present and matches, and whether it is marked disabled (the disabled
\* attribute of a native option, the disabled class of a popup option).
MaxOptions == 2
ListedOptions == [text_match : BOOLEAN, data_match : BOOLEAN, disabled : BOOLEAN]
OptionLists == SeqsUpTo(ListedOptions, MaxOptions)

\* As NativeChoice, passing over the matching options that are disabled.
NativeChoice_enabled(options) ==
    LET hits == {i \in 1..Len(options) : options[i].text_match /\ ~options[i].disabled}
    IN  IF hits = {} THEN 0 ELSE Min(hits)

\* Lines 663-666: the first option of a native select whose text matches,
\* 0 when none does.
NativeChoice(options) ==
    LET hits == {i \in 1..Len(options) : options[i].text_match}
    IN  IF hits = {} THEN 0 ELSE Min(hits)

\* As PopupChoice, with one loop that takes the first option matching by its
\* data attribute or by its text.
PopupChoice_either(options) ==
    LET hits == {i \in 1..Len(options) : options[i].data_match \/ options[i].text_match}
    IN  IF hits = {} THEN 0 ELSE Min(hits)

\* Lines 720-740: chosen_option of a popup listbox, 0 for None: the first
\* option matching by data-sku-value-name, and only when there is none the
\* first option matching by text.
PopupChoice(options) ==
    LET by_data == {i \in 1..Len(options) : options[i].data_match}
        by_text == {i \in 1..Len(options) : options[i].text_match}
    IN  IF by_data # {} THEN Min(by_data)
        ELSE IF by_text # {} THEN Min(by_text)
        ELSE 0

\* The option the scan of a control of this type stops at.
ChosenOption(type, options) ==
    IF type = "select" THEN NativeChoice(options) ELSE PopupChoice(options)

\* The control select_option_from_group finds for a group with these
\* options (its selector button present, the click not timing out).
ControlOf(type, options) ==
    LET chosen == ChosenOption(type, options)
        marked == chosen # 0 /\ options[chosen].disabled
    IN  Control(type, type # "select", chosen # 0, type = "select" /\ marked,
                type # "select" /\ marked, FALSE, FALSE, FALSE)

\* The matched option carries a disabled marker.
DisabledMarker(c) ==
    c.matched /\ (c.disabled_attr \/ c.class_disabled \/ c.aria_disabled \/ c.text_oos)

\* <<disabled, reason>>; text_oos stands for "out of stock" in option_text.lower().
interpret_option_state(text_oos, class_disabled, aria_disabled) ==
    LET r1 == IF class_disabled THEN <<"Option marked out of stock (disabled class)">> ELSE NoMessage
        r2 == IF aria_disabled THEN <<"Option marked out of stock (aria-disabled=true)">> ELSE r1
        r3 == IF text_oos THEN <<"Label indicates out of stock">> ELSE r2
    IN  <<class_disabled \/ aria_disabled \/ text_oos, r3>>

\* [ok, reason]
select_option_from_group(c, target_value) ==
    IF c.type = "select"
    THEN IF ~c.matched
         THEN [ok |-> FALSE, reason |-> <<"Variant value '", target_value, "' not found">>]
         ELSE IF c.disabled_attr
         THEN [ok |-> FALSE, reason |-> <<"Option disabled">>]
         ELSE [ok |-> TRUE, reason |-> NoMessage]
    ELSE IF ~c.button
         THEN [ok |-> FALSE, reason |-> <<"Variant selector button missing">>]
         ELSE IF ~c.matched
         THEN [ok |-> FALSE, reason |-> <<"Variant value '", target_value, "' not found">>]
         ELSE LET st == interpret_option_state(c.text_oos, c.class_disabled, c.aria_disabled)
              IN  IF st[1]
                  THEN [ok |-> FALSE,
                        reason |-> IF st[2] # NoMessage THEN st[2] ELSE <<"Option disabled">>]
                  ELSE IF c.click_timeout
                  THEN [ok |-> FALSE,
                        reason |-> <<"Timeout clicking option '", target_value,
                                     "' - element not interactable">>]
                  ELSE [ok |-> TRUE, reason |-> NoMessage]

\* As Gestures, with the Escape of line 764 forgotten.
Gestures_timeout_left_open(c, target_value) ==
    IF c.type = "select"
    THEN IF c.matched /\ ~c.disabled_attr THEN <<"select_option">> ELSE << >>
    ELSE IF ~c.button THEN << >>
    ELSE <<"button.click">> \o
         (IF ~c.matched THEN <<"Escape">>
          ELSE IF interpret_option_state(c.text_oos, c.class_disabled, c.aria_disabled)[1]
          THEN <<"Escape">>
          ELSE IF c.click_timeout THEN <<"option.click timed out">>
          ELSE <<"option.click">>)

\* What select_option_from_group does to the control, in order: the click
\* that opens the popup (line 693), the Escape that closes it (lines 742,
\* 751, 764), the click on the chosen option (line 762), select_option on a
\* native select (line 671).
Gestures(c, target_value) ==
    IF c.type = "select"
    THEN IF c.matched /\ ~c.disabled_attr THEN <<"select_option">> ELSE << >>
    ELSE IF ~c.button THEN << >>
    ELSE <<"button.click">> \o
         (IF ~c.matched THEN <<"Escape">>
          ELSE IF interpret_option_state(c.text_oos, c.class_disabled, c.aria_disabled)[1]
          THEN <<"Escape">>
          ELSE IF c.click_timeout THEN <<"option.click timed out", "Escape">>
          ELSE <<"option.click">>)

\* As SelectionFailureStatus, looking for "out of stock" alone.
SelectionFailureStatus_oos_only(failure_reason) ==
    IF Contains(failure_reason, "out of stock") THEN "OUT_OF_STOCK" ELSE "ERROR"

\* Lines 948-952: the status of a failed selection.
SelectionFailureStatus(failure_reason) ==
    IF \E kw \in {"out of stock", "disabled", "aria-disabled"} : Contains(failure_reason, kw)
    THEN "OUT_OF_STOCK" ELSE "ERROR"

\* What page.evaluate(script) gives: a text, None, or an exception.
Raises == "<raises>"
AvailabilityTexts ==
    {None, "Out of stock", "Add to basket disabled", "Add to basket enabled"}

\* The page as the script of evaluate_availability reads it: the textContent
\* of the availability elements present, in the order of the selectors
\* (lines 774-780), and the purchase button (line 788).
MaxMessages == 2
Blank == " "
MessageTexts == {"Out of stock", "Currently unavailable", "Last one"}
AvailabilityPages ==
    [messages : SeqsUpTo(MessageTexts \cup {"", Blank}, MaxMessages),
     button : {"none", "enabled", "disabled"}]

\* Line 784: textContent.trim(), for the texts of the model.
trim(text) == IF text = Blank THEN "" ELSE text

\* As AvailabilityScript, asking the purchase button before the messages.
AvailabilityScript_button_first(page) ==
    LET shown == {i \in 1..Len(page.messages) : trim(page.messages[i]) # ""}
    IN  IF page.button # "none"
        THEN IF page.button = "disabled" THEN "Add to basket disabled"
             ELSE "Add to basket enabled"
        ELSE IF shown # {} THEN trim(page.messages[Min(shown)])
        ELSE None

\* Lines 772-795: the script, what page.evaluate returns when it does.
AvailabilityScript(page) ==
    LET shown == {i \in 1..Len(page.messages) : trim(page.messages[i]) # ""}
    IN  IF shown # {} THEN trim(page.messages[Min(shown)])
        ELSE IF page.button = "none" THEN None
        ELSE IF page.button = "disabled" THEN "Add to basket disabled"
        ELSE "Add to basket enabled"

\* ev: [first, second], the first evaluation and the retry after it raised.
EvalEnvs ==
    [first : AvailabilityTexts, second : {None}]
    \cup [first : {Raises}, second : AvailabilityTexts \cup {Raises}]

\* As evaluate_availability, without the second evaluation of line 802.
evaluate_availability_no_retry(ev) ==
    LET availability_text == ev.first
    IN  IF availability_text = Raises THEN <<"IN_STOCK", None>>
        ELSE IF /\ availability_text # None
                /\ \E kw \in {"out of stock", "unavailable", "add to basket disabled"} :
                       PieceHas(availability_text, kw)
        THEN <<"OUT_OF_STOCK", availability_text>>
        ELSE <<"IN_STOCK", availability_text>>

\* <<status, detail>>
evaluate_availability(ev) ==
    LET availability_text == IF ev.first # Raises THEN ev.first ELSE ev.second
    IN  IF availability_text = Raises THEN <<"IN_STOCK", None>>
        ELSE IF /\ availability_text # None
                /\ \E kw \in {"out of stock", "unavailable", "add to basket disabled"} :
                       PieceHas(availability_text, kw)
        THEN <<"OUT_OF_STOCK", availability_text>>
        ELSE <<"IN_STOCK", availability_text>>

\* Line 974.
EvaluatedError(status, detail) ==
    IF status = "OUT_OF_STOCK" /\ detail # None THEN <<detail>> ELSE NoMessage

\* The page after navigation: the text of its body (empty when inner_text
\* timed out, line 820) and its URL.
ChallengeUrl == "https://www.ebay.co.uk/splashui/challenge"
Pages == [body : Bodies \cup {""}, url : {"https://www.ebay.co.uk/itm/1001", ChallengeUrl}]

\* Lines 816-825.
detect_challenge(page) ==
    \/ \E marker \in CHALLENGE_MARKERS_LOWER : MarkerIn(marker, lowered(page.body))
    \/ page.url = ChallengeUrl

\* As SelectRaises, for a selection that looked for the challenge itself.
SelectRaises_challenge ==
    {"ChallengeDetected", "PlaywrightTimeoutError", "Exception"}

\* What the Playwright calls of select_option_from_group raise outside its
\* own try blocks (button.click, select_option, get_attribute).
SelectRaises == {"PlaywrightTimeoutError", "Exception"}

(***************************************************************************)
(* Challenge & Retry Controller: the except clauses of both engines.       *)
(***************************************************************************)
Exceptions == {"ChallengeDetected", "PlaywrightTimeoutError", "Exception"}

\* As HandlerStatus, with the assignment of ERROR forgotten.
HandlerStatus_blocked(exc) == "BLOCKED"

HandlerStatus(exc) ==
    IF exc = "ChallengeDetected" THEN "BLOCKED" ELSE "ERROR"

ExcText == "<str(exc)>"

HandlerMessage(eng, exc, url) ==
    IF eng = "requests"
    THEN IF exc = "ChallengeDetected" THEN <<"Bot challenge detected for ", url>>
         ELSE <<ExcText>>
    ELSE IF exc = "ChallengeDetected" THEN <<"Bot challenge page encountered">>
         ELSE IF exc = "PlaywrightTimeoutError" THEN <<"Timeout: ", ExcText>>
         ELSE <<ExcText>>

\* results.append(row)
EmitRow(rows, row) == Append(rows, row)

Row(record, status, error) ==
    [row_index |-> record.row_index, detected_status |-> status, error |-> error]

(***************************************************************************)
(* The run.  The inputs: the engine, max_retries (--retries, a number of   *)
(* retries, so not negative), the descriptors.  delay (--delay, seconds)   *)
(* is not negative, so time.sleep never raises.                            *)
(***************************************************************************)
RunUrl == "https://www.ebay.co.uk/itm/1001"
\* The (variation, size) of a descriptor: both, the colour alone, neither.
Shapes ==
    {<<"Green Cream - Greekey", "60 x 110 cm">>, <<"Green Cream - Greekey", None>>,
     <<None, None>>}

RecordLists ==
    {[i \in 1..n |-> [row_index |-> i, variation |-> cs[i][1],
                      size |-> cs[i][2], listing_url |-> RunUrl]] :
        n \in 0..MaxRecords, cs \in [1..MaxRecords -> Shapes]}

\* The locals of a visit, dead once the visit has ended.
EndVisit == dims' = << >> /\ k' = 0 /\ used_indices' = {}

\* An except clause of the retry loop: the status and message it records,
\* then its wait (time.sleep, page.wait_for_timeout).  The wait is outside
\* the try: when it raises (the page or browser was closed), the exception
\* leaves the function.  made is the number of attempts begun so far.
Handle(exc, wait_ok, made) ==
    /\ availability' = HandlerStatus(exc)
    /\ error_message' = HandlerMessage(engine, exc, records[index].listing_url)
    /\ last_outcome' = exc
    /\ all_challenge' = (all_challenge /\ exc = "ChallengeDetected")
    /\ exhausted_at' = (exhausted_at \/ (made = max_retries + 1 /\ all_challenge'))
    /\ EndVisit
    /\ pc' = IF wait_ok THEN "while" ELSE "unwind"
    /\ page_closed' = ~wait_ok

RunInit ==
    /\ engine \in {"requests", "chromium"}
    /\ max_retries \in 0..MaxRetries
    /\ records \in RecordLists
    /\ pc = IF engine = "requests" THEN "for" ELSE "open"
    /\ index = 0
    /\ attempts = 0
    /\ availability = "BLOCKED"
    /\ error_message = NoMessage
    /\ results = << >>
    /\ paced = 0
    /\ session = "none"
    /\ page_closed = FALSE
    /\ dims = << >>
    /\ k = 0
    /\ used_indices = {}
    /\ last_outcome = "none"
    /\ all_challenge = TRUE
    /\ sel_log = << >>
    /\ disabled_at = 0
    /\ exhausted_at = FALSE

\* Lines 430-441 and 886-890: the next descriptor.
NextRecord ==
    /\ index' = index + 1
    /\ attempts' = 0
    /\ availability' = "BLOCKED"
    /\ error_message' = NoMessage
    /\ last_outcome' = "none"
    /\ all_challenge' = TRUE
    /\ sel_log' = << >>
    /\ disabled_at' = 0
    /\ pc' = "while"
    /\ UNCHANGED <<inputs, results, paced, session, page_closed, visit, exhausted_at, loadvars, callvars>>

\* As Complete, keeping the message of an earlier attempt when this one
\* leaves none.
Complete_stale(status, message, outcome) ==
    /\ availability' = status
    /\ error_message' = IF message = NoMessage THEN error_message ELSE message
    /\ last_outcome' = outcome
    /\ all_challenge' = FALSE
    /\ pc' = "emit"
    /\ EndVisit
    /\ UNCHANGED <<exhausted_at, page_closed>>

\* As Complete, without the break that leaves the retry loop.
Complete_no_break(status, message, outcome) ==
    /\ availability' = status
    /\ error_message' = message
    /\ last_outcome' = outcome
    /\ all_challenge' = FALSE
    /\ pc' = "while"
    /\ EndVisit
    /\ UNCHANGED <<exhausted_at, page_closed>>

\* An attempt that completes: the status and the message it leaves.
Complete(status, message, outcome) ==
    /\ availability' = status
    /\ error_message' = message
    /\ last_outcome' = outcome
    /\ all_challenge' = FALSE
    /\ pc' = "emit"
    /\ EndVisit
    /\ UNCHANGED <<exhausted_at, page_closed>>

ReqNext ==
    /\ engine = "requests" /\ pc = "for" /\ index < Len(records)
    /\ NextRecord

\* Lines 442-458: one attempt of the static engine.
ReqAttempt ==
    /\ engine = "requests" /\ pc = "while" /\ attempts <= max_retries
    /\ attempts' = attempts + 1
    /\ \/ Handle("Exception", TRUE, attempts + 1)   \* session.get or the parser raises
       \/ \E got \in {[fetched |-> fetch_listing_html(response),
                         status |-> detect_availability(response.doc)] :
                            response \in Responses} :
            IF got.fetched = "text"
            THEN Complete(got.status, NoMessage, "ok")
            ELSE Handle(IF got.fetched = "ChallengeDetected" THEN got.fetched
                        ELSE "Exception",
                        TRUE, attempts + 1)
    /\ UNCHANGED <<inputs, index, results, paced, session, sel_log, disabled_at, loadvars, callvars>>

\* Lines 442 and 459-462: the loop condition fails, the else clause logs.
ReqExhausted ==
    /\ engine = "requests" /\ pc = "while" /\ attempts > max_retries
    /\ pc' = "emit"
    /\ UNCHANGED <<inputs, index, attempts, availability, error_message, results, paced,
                   session, page_closed, visit, hist, loadvars, callvars>>

\* As PacingSleeps, sleeping after the last descriptor too.
PacingSleeps_after_last(position, n) == 1

\* Lines 483-484 and 1008-1009: the sleeps of the base delay made after the
\* row of the descriptor at position, of n descriptors.
PacingSleeps(position, n) == IF position < n THEN 1 ELSE 0

\* Lines 464-484: the result row, then the pacing sleep.
ReqEmit ==
    /\ engine = "requests" /\ pc = "emit"
    /\ results' = EmitRow(results, Row(records[index], availability, error_message))
    /\ paced' = paced + PacingSleeps(index, Len(records))
    /\ pc' = "for"
    /\ UNCHANGED <<inputs, index, attempts, availability, error_message, session,
                   page_closed, visit, hist, loadvars, callvars>>

\* Line 486.
ReqReturn ==
    /\ engine = "requests" /\ pc = "for" /\ index = Len(records)
    /\ pc' = "returned"
    /\ UNCHANGED <<inputs, index, attempts, availability, error_message, results, paced,
                   session, page_closed, visit, hist, loadvars, callvars>>

\* Lines 839-885: launch the browser, open the context and the page.  When
\* the launch raises, nothing was opened and the exception leaves the with
\* block.
ChrOpen ==
    /\ engine = "chromium" /\ pc = "open"
    /\ \E ok \in BOOLEAN :
         IF ok THEN session' = "open" /\ pc' = "for"
         ELSE session' = session /\ pc' = "unwind"
    /\ UNCHANGED <<inputs, index, attempts, availability, error_message, results, paced,
                   page_closed, visit, hist, loadvars, callvars>>

ChrNext ==
    /\ engine = "chromium" /\ pc = "for" /\ index < Len(records)
    /\ NextRecord

AfterSelection(ds, j) == IF j <= Len(ds) THEN "select" ELSE "evaluate"

\* Lines 891-937: navigate, check for a challenge (line 904, before
\* collect_variant_groups), collect the groups and assign them to the
\* dimensions.
ChrNavigate ==
    /\ engine = "chromium" /\ pc = "while" /\ attempts <= max_retries
    /\ attempts' = attempts + 1
    /\ sel_log' = << >>
    /\ \/ \E exc \in {"PlaywrightTimeoutError", "Exception"}, wait_ok \in BOOLEAN :
              Handle(exc, wait_ok, attempts + 1)      \* page.goto or a wait raises
       \/ /\ \E page \in Pages : detect_challenge(page)
          /\ \E wait_ok \in BOOLEAN : Handle("ChallengeDetected", wait_ok, attempts + 1)
       \/ /\ \E page \in Pages : ~detect_challenge(page)
          /\ \E assigned \in {dimensions_with_group(records[index], groups) :
                                  groups \in SeqsUpTo(GroupLabels, MaxGroups)} :
                /\ dims' = assigned
                /\ k' = 1
                /\ used_indices' = {}
                /\ pc' = AfterSelection(dims', 1)
                /\ UNCHANGED <<availability, error_message, last_outcome,
                               all_challenge, exhausted_at, page_closed>>
    /\ UNCHANGED <<inputs, index, results, paced, session, disabled_at, loadvars, callvars>>

\* Lines 940-943: the group of this entry was already used.
ChrSkipUsed ==
    /\ engine = "chromium" /\ pc = "select"
    /\ dims[k].group_idx \in used_indices
    /\ k' = k + 1
    /\ pc' = AfterSelection(dims, k + 1)
    /\ UNCHANGED <<inputs, index, attempts, availability, error_message, results, paced,
                   session, page_closed, dims, used_indices, hist, loadvars, callvars>>

\* History of one selection: its group, whether the matched option carried a
\* disabled marker, and how many selections the visit had planned.
SelEntry(g, c, n) == [group_idx |-> g, marker |-> DisabledMarker(c), planned |-> n]

\* Lines 944-959: select the entry's value in its group; a failed selection
\* is classified and ends the descriptor's attempts.
ChrSelect ==
    /\ engine = "chromium" /\ pc = "select"
    /\ dims[k].group_idx \notin used_indices
    /\ \/ /\ \E exc \in SelectRaises, wait_ok \in BOOLEAN :
                Handle(exc, wait_ok, attempts)
          /\ UNCHANGED <<sel_log, disabled_at>>
       \/ \E c \in Controls :
            LET r == select_option_from_group(c, dims[k].dim_value)
            IN  /\ sel_log' = Append(sel_log, SelEntry(dims[k].group_idx, c, Len(dims)))
                /\ disabled_at' = IF sel_log = << >> /\ DisabledMarker(c)
                                  THEN attempts ELSE disabled_at
                /\ IF r.ok
                   THEN /\ k' = k + 1
                        /\ used_indices' = used_indices \cup {dims[k].group_idx}
                        /\ pc' = AfterSelection(dims, k + 1)
                        /\ UNCHANGED <<availability, error_message, last_outcome,
                                       all_challenge, exhausted_at, page_closed, dims>>
                   ELSE Complete(SelectionFailureStatus(r.reason), r.reason,
                                 "selection_failed")
    /\ UNCHANGED <<inputs, index, attempts, results, paced, session, loadvars, callvars>>

\* Lines 961-975: settle, evaluate the availability, leave the loop.
ChrEvaluate ==
    /\ engine = "chromium" /\ pc = "evaluate"
    /\ \/ \E wait_ok \in BOOLEAN : Handle("Exception", wait_ok, attempts)
       \/ \E e \in {evaluate_availability(ev) : ev \in EvalEnvs} :
            Complete(e[1], EvaluatedError(e[1], e[2]), "ok")
    /\ UNCHANGED <<inputs, index, attempts, results, paced, session, sel_log, disabled_at,
                   loadvars, callvars>>

\* Line 891: the loop condition fails.
ChrExhausted ==
    /\ engine = "chromium" /\ pc = "while" /\ attempts > max_retries
    /\ pc' = "emit"
    /\ UNCHANGED <<inputs, index, attempts, availability, error_message, results, paced,
                   session, page_closed, visit, hist, loadvars, callvars>>

\* Lines 991-1009: the result row, then the pacing wait on the page, which
\* raises when the page or browser was closed.
ChrEmit ==
    /\ engine = "chromium" /\ pc = "emit"
    /\ results' = EmitRow(results, Row(records[index], availability, error_message))
    /\ paced' = paced + PacingSleeps(index, Len(records))
    /\ \E wait_ok \in BOOLEAN :
         /\ wait_ok \/ PacingSleeps(index, Len(records)) > 0
         /\ pc' = IF wait_ok THEN "for" ELSE "unwind"
         /\ page_closed' = ~wait_ok
    /\ UNCHANGED <<inputs, index, attempts, availability, error_message, session,
                   visit, hist, loadvars, callvars>>

\* As ContextManagerExit, for a Playwright started without the with block.
ContextManagerExit_none(s) == s

\* Line 839: leaving `with sync_playwright() as p`, normally or by an
\* exception, stops Playwright, which closes the browsers it still runs.
ContextManagerExit(s) == IF s = "open" THEN "closed" ELSE s

\* Lines 1011-1016: after the last descriptor, browser.close() or
\* context.close(), then the with block is left and the rows are returned.
ChrClose ==
    /\ engine = "chromium" /\ pc = "for" /\ index = Len(records)
    /\ session' = ContextManagerExit("closed")
    /\ pc' = "returned"
    /\ UNCHANGED <<inputs, index, attempts, availability, error_message, results, paced,
                   page_closed, visit, hist, loadvars, callvars>>

\* Line 839: the with block is left by an exception, which goes on to the
\* caller.
PlaywrightExit ==
    /\ engine = "chromium" /\ pc = "unwind"
    /\ session' = ContextManagerExit(session)
    /\ pc' = "raised"
    /\ UNCHANGED <<inputs, index, attempts, availability, error_message, results, paced,
                   page_closed, visit, hist, loadvars, callvars>>

(***************************************************************************)
(* Label Normalizer (lines 489-550).  A label is the sequence of its       *)
(* characters; the only whitespace in the labels of the model is " ".      *)
(***************************************************************************)
MaxLabelLen == 3

\* str.lower() on the letters the labels use.
LowerChar(c) ==
    CASE c = "B" -> "b" [] c = "G" -> "g" [] c = "M" -> "m" [] c = "P" -> "p"
      [] c = "O" -> "o" [] c = "X" -> "x" [] c = "C" -> "c" [] c = "S" -> "s"
      [] OTHER -> c

Lower(t) == [i \in 1..Len(t) |-> LowerChar(t[i])]

\* str.strip().
RECURSIVE LStrip(_)
LStrip(t) == IF t # << >> /\ Head(t) = " " THEN LStrip(Tail(t)) ELSE t

RECURSIVE RStrip(_)
RStrip(t) == IF t # << >> /\ t[Len(t)] = " " THEN RStrip(SubSeq(t, 1, Len(t) - 1)) ELSE t

Strip(t) == RStrip(LStrip(t))

\* str.find, counted from 1, 0 when sub does not occur; `sub in t`.
Find(t, sub) ==
    LET hits == {i \in 1..(Len(t) - Len(sub) + 1) : SubSeq(t, i, i + Len(sub) - 1) = sub}
    IN  IF hits = {} THEN 0 ELSE Min(hits)

In(sub, t) == Find(t, sub) # 0

\* t.split(sep)[0].
Before(t, sep) == IF In(sep, t) THEN SubSeq(t, 1, Find(t, sep) - 1) ELSE t

\* t.replace(sub, '').
RECURSIVE Remove(_, _)
Remove(t, sub) ==
    IF ~In(sub, t) THEN t
    ELSE SubSeq(t, 1, Find(t, sub) - 1)
         \o Remove(SubSeq(t, Find(t, sub) + Len(sub), Len(t)), sub)

\* " ".join(t.split()): runs of spaces become one, none at either end.
RECURSIVE Squeeze(_)
Squeeze(t) ==
    IF t = << >> THEN << >>
    ELSE IF Head(t) = " " /\ (Len(t) = 1 \/ t[2] = " ") THEN Squeeze(Tail(t))
    ELSE <<Head(t)>> \o Squeeze(Tail(t))

\* Lines 489-490.
normalize_label(text) == LStrip(Squeeze(Lower(text)))

\* Lines 493-501.
extract_base_colour(colour_text) ==
    LET text == Strip(colour_text)
    IN  IF In(<<" ", "-", " ">>, text)
        THEN Lower(Strip(Before(text, <<" ", "-", " ">>)))
        ELSE Lower(text)

Most_popular == <<"M", "o", "s", "t", " ", "p", "o", "p", "u", "l", "a", "r">>
selected == <<"s", "e", "l", "e", "c", "t", "e", "d">>

\* As extract_base_size, leaving a parenthesis in place.
extract_base_size_keep_paren(size_text) ==
    Lower(Strip(Remove(Remove(Strip(size_text), Most_popular), selected)))

\* Lines 504-513.
extract_base_size(size_text) ==
    LET text == Strip(size_text)
        cut == IF In(<<"(">>, text) THEN Strip(Before(text, <<"(">>)) ELSE text
    IN  Lower(Strip(Remove(Remove(cut, Most_popular), selected)))

IsDigit(c) == c \in {"0", "1", "2", "3", "4", "5", "6", "7", "8", "9"}

\* Lines 521-524: the substring tier.
SubstringTier(option_text, target) ==
    In(normalize_label(target), normalize_label(option_text))

\* Lines 528-534: the colour tier.
ColourTier(option_text, target) ==
    /\ In(<<" ", "-", " ">>, option_text) \/ In(<<" ", "-", " ">>, target)
    /\ LET option_base == extract_base_colour(option_text)
           target_base == extract_base_colour(target)
       IN  \/ option_base = target_base
           \/ In(target_base, option_base)
           \/ In(option_base, target_base)

\* Line 538: the option looks like a size.
SizeShaped(option_text) ==
    \/ In(<<"c", "m">>, Lower(option_text))
    \/ /\ In(<<"x">>, Lower(option_text))
       /\ \E i \in 1..Len(option_text) : IsDigit(option_text[i])

\* As SizeTier, without the comparison that ignores spaces.
SizeTier_spaces_kept(option_text, target) ==
    /\ SizeShaped(option_text)
    /\ \/ extract_base_size(option_text) = extract_base_size(target)
       \/ In(extract_base_size(target), extract_base_size(option_text))

\* Lines 538-547: the size tier.
SizeTier(option_text, target) ==
    /\ SizeShaped(option_text)
    /\ LET option_base == extract_base_size(option_text)
           target_base == extract_base_size(target)
       IN  \/ option_base = target_base
           \/ In(target_base, option_base)
           \/ Remove(option_base, <<" ">>) = Remove(target_base, <<" ">>)

\* Lines 516-550.
option_matches(option_text, target) ==
    \/ SubstringTier(option_text, target)
    \/ ColourTier(option_text, target)
    \/ SizeTier(option_text, target)

\* The labels of the feed and of the page.
GelBack_Pink == <<"G", "e", "l", "B", "a", "c", "k", "-", "P", "i", "n", "k">>
Gel_Back_Pink == <<"G", "e", "l", " ", "B", "a", "c", "k", "-", "P", "i", "n", "k">>
GelBack_space_Pink == <<"G", "e", "l", "B", "a", "c", "k", " ", "P", "i", "n", "k">>
Pink_Gel_Back_59 == <<"P", "i", "n", "k", " ", "-", " ", "G", "e", "l", " ", "B", "a", "c", "k", " ", "5", "9">>
Pink == <<"P", "i", "n", "k">>
pink == <<"p", "i", "n", "k">>
Beige == <<"B", "e", "i", "g", "e">>
Size_60x110cm == <<"6", "0", "x", "1", "1", "0", "c", "m">>
Size_60_x_110_cm == <<"6", "0", " ", "x", " ", "1", "1", "0", " ", "c", "m">>
Size_60_x110cm == <<"6", "0", " ", "x", "1", "1", "0", "c", "m">>
Size_Imperial == <<"6", "0", " ", "x", " ", "1", "1", "0", " ", "c", "m", " ", "(", "1", " ", "f", "t", " ", "1", "1", " ", "i", "n", " ", "x", " ", "3", " ", "f", "t", " ", "7", " ", "i", "n", ")">>
Size_Popular == <<"6", "0", " ", "x", " ", "1", "1", "0", " ", "c", "m", " ", "M", "o", "s", "t", " ", "p", "o", "p", "u", "l", "a", "r">>
Imperial_1 == <<"(", "1", " ", "f", "t", " ", "1", "1", " ", "i", "n", " ", "x", " ", "3", " ", "f", "t", " ", "7", " ", "i", "n", ")">>
Imperial_2 == <<"(", "2", " ", "f", "t", ")">>

ColourLabels == {GelBack_Pink, Gel_Back_Pink, GelBack_space_Pink, Pink_Gel_Back_59, Pink, Beige}

\* Size labels with no parenthesis and no adornment: every text of at most
\* MaxLabelLen of these characters, and the labels of the listing.
SizeChars == {"6", "0", "x", "c", "m", " "}
PlainSizes ==
    UNION {[1..n -> SizeChars] : n \in 0..MaxLabelLen}
    \cup {Size_60x110cm, Size_60_x_110_cm, Size_60_x110cm}
Annotations == {Imperial_1, Imperial_2}
Annotated == {s \o <<" ">> \o a : s \in PlainSizes, a \in Annotations}

MatchLabels ==
    ColourLabels \cup {Size_60x110cm, Size_60_x_110_cm, Size_60_x110cm, Size_Imperial,
                       Size_Popular, pink}

(***************************************************************************)
(* load_variants_from_excel (lines 176-338).  A text is the sequence of    *)
(* its words, the empty sequence standing for None and for the empty       *)
(* string alike (both are falsy, and clean_cell_value turns "" into None). *)
(***************************************************************************)
NoText == << >>

MaxRows == 3
MaxStartRow == 2
MaxLimit == 1

\* Cells of the sheet: NaN, or a text (blank when it has no word).
NaN == [nan |-> TRUE, text |-> NoText]
Cell(text) == [nan |-> FALSE, text |-> text]

\* Lines 201-213: clean_cell_value.
clean_cell_value(value) == IF value.nan THEN NoText ELSE value.text

\* Cells of the LISTING LINK column: NaN, or a URL with its query part.
NaNUrl == [nan |-> TRUE, base |-> "", query |-> ""]
Url(base, query) == [nan |-> FALSE, base |-> base, query |-> query]

\* Line 239: notna.
notna(cell) == ~cell.nan

\* Lines 246-248: urlparse(raw_url)._replace(query="", fragment="").geturl().
base_url_of(raw_url) == raw_url.base

\* Words written in the sheet, one of each kind per row position, so that a
\* colour tells which row it was written in.
CellColours == <<"Teal", "Mauve", "Ochre", "Lilac">>
NameColours == <<"Cream", "Black", "Grey", "Brown">>

\* Lines 263 and 296: the colour words looked for in a product name.
ColourWords == {"cream", "black", "grey", "gray", "brown", "beige", "blue",
                "green", "white", "red", "silver", "dark"}

\* str.lower() on the words of the sheet.
lower(w) ==
    CASE w = "Cream" -> "cream" [] w = "Black" -> "black"
      [] w = "Grey" -> "grey"   [] w = "Brown" -> "brown"
      [] w = "Teal" -> "teal"   [] w = "Mauve" -> "mauve"
      [] w = "Ochre" -> "ochre" [] w = "Lilac" -> "lilac"
      [] w = "Rug" -> "rug"     [] w = "Border" -> "border"
      [] w = "Large" -> "large" [] w = "Greekey" -> "greekey"
      [] w = "Green" -> "green"
      [] OTHER -> w

\* Lines 261-270 and 294-304: the colour read out of a product name, NoText
\* when it holds no colour word.  " - " lies in the joined words when a "-"
\* word has a word after it (the first word is the colour word).
ExtractColour(parts) ==
    LET hits == {i \in 1..Len(parts) : lower(parts[i]) \in ColourWords}
    IN  IF hits = {} THEN NoText
        ELSE LET remaining == SubSeq(parts, Min(hits), Len(parts))
                 dashes == {p \in 2..(Len(remaining) - 1) : remaining[p] = "-"}
             IN  IF dashes # {}
                 THEN SubSeq(remaining, 1, Min(dashes) - 1) \o <<"-", "Greekey">>
                 ELSE remaining

\* Line 281: " - Greekey" in variation.
HasGreekey(variation) ==
    \E p \in 2..(Len(variation) - 1) :
        variation[p] = "-" /\ variation[p + 1] = "Greekey"

\* Lines 283-284: lower, both replaces of "cm", strip; the words left.
SizeClean(size) == SelectSeq(size, LAMBDA w : lower(w) # "cm")

\* As Get, answering with the colour of whichever listing was stored.
Get_any(d, key) ==
    IF DOMAIN d = {} THEN NoText ELSE d[CHOOSE u \in DOMAIN d : TRUE]

\* Line 253: dict.get, None for a key not stored.
Get(d, key) == IF key \in DOMAIN d THEN d[key] ELSE NoText

\* As Put, leaving a key already stored as it is (dict.setdefault).
Put_first(d, key, value) ==
    [u \in DOMAIN d \cup {key} |-> IF u \in DOMAIN d THEN d[u] ELSE value]

\* Line 251: dict item assignment.
Put(d, key, value) ==
    [u \in DOMAIN d \cup {key} |-> IF u = key THEN value ELSE d[u]]

\* Lines 278-312: the look back through history, from row prev_idx down.
RECURSIVE ScanBack(_, _, _)
ScanBack(history, prev_idx, base_url) ==
    IF prev_idx = 0 THEN NoText
    ELSE LET prev_record == history[prev_idx]
         IN  IF prev_record.listing_url # base_url THEN NoText
             ELSE IF prev_record.variation # NoText /\ HasGreekey(prev_record.variation)
             THEN IF SizeClean(prev_record.size) # NoText
                  THEN prev_record.variation
                  ELSE ScanBack(history, prev_idx - 1, base_url)
             ELSE IF prev_record.stock_name # NoText
                     /\ ExtractColour(prev_record.stock_name) # NoText
             THEN ExtractColour(prev_record.stock_name)
             ELSE ScanBack(history, prev_idx - 1, base_url)

\* Line 315: the placeholder sizes.
IsPlaceholder(size_value) ==
    size_value = NoText \/ (Len(size_value) = 1 /\ lower(size_value[1]) \in {"n/a", "na", "select", "rug"})

\* Lines 314-318.
ResolveSize(dimensions, pack_type) ==
    LET first == IF dimensions # NoText THEN dimensions ELSE pack_type
        second == IF first # NoText /\ IsPlaceholder(first) THEN dimensions ELSE first
    IN  IF second = NoText THEN pack_type ELSE second

\* Lines 246-331: the descriptor built for row `row` at position i, given the
\* colour its cell or the table gave.
BuildRecord(row, i, history, table) ==
    LET raw_url == row.listing_url
        base_url == base_url_of(raw_url)
        cell == clean_cell_value(row.variation)
        pack_type == clean_cell_value(row.pack_type)
        dimensions == clean_cell_value(row.dimensions)
        product_name == clean_cell_value(row.stock_name)
        color1 == IF cell # NoText THEN cell ELSE Get(table, base_url)
        color2 == IF color1 = NoText /\ product_name # NoText
                  THEN ExtractColour(product_name) ELSE color1
        current_size == IF dimensions # NoText THEN dimensions ELSE pack_type
        color3 == IF color2 = NoText /\ current_size # NoText
                  THEN ScanBack(history, i - 1, base_url) ELSE color2
    IN  [row_index |-> i, excel_row |-> i + 2, source_url |-> [base |-> raw_url.base, query |-> raw_url.query],
         stock_name |-> product_name, variation |-> color3,
         size |-> ResolveSize(dimensions, pack_type),
         dimensions |-> dimensions, listing_url |-> base_url]

\* The rows a sheet may hold at position j.
SheetRow(url, variation, stock_name, dimensions, pack_type) ==
    [listing_url |-> url, variation |-> variation, stock_name |-> stock_name,
     dimensions |-> dimensions, pack_type |-> pack_type]

Dims == Cell(<<"160x230", "cm">>)
GreenCream == <<"Green", "Cream", "-", "Greekey">>

SheetRows(j) ==
    LET colour == Cell(<<CellColours[j]>>)
        dashname == Cell(<<"Rug", NameColours[j], "-", "Border">>)
        colourname == Cell(<<"Rug", NameColours[j]>>)
        plainname == Cell(<<"Rug">>)
        A == Url("https://www.ebay.co.uk/itm/1", "")
        Aq == Url("https://www.ebay.co.uk/itm/1", "var=2")
        B == Url("https://www.ebay.co.uk/itm/3", "")
    IN  { SheetRow(A, colour, NaN, Dims, NaN),
          SheetRow(A, NaN, NaN, Dims, NaN),
          SheetRow(Aq, Cell(NoText), NaN, NaN, NaN),
          SheetRow(A, NaN, dashname, Dims, NaN),
          SheetRow(Aq, NaN, colourname, NaN, NaN),
          SheetRow(A, NaN, plainname, NaN, Cell(<<"Large">>)),
          SheetRow(B, colour, NaN, Dims, NaN),
          SheetRow(B, NaN, NaN, Dims, NaN),
          SheetRow(B, NaN, dashname, NaN, NaN),
          SheetRow(NaNUrl, colour, NaN, Dims, NaN),
          SheetRow(Url("", ""), NaN, NaN, Dims, NaN),
          SheetRow(Url("", "var=2"), colour, NaN, Dims, NaN),
          SheetRow(A, NaN, NaN, Cell(<<"Rug">>), Cell(<<"Large">>)) }
        \cup (IF j = 1 THEN {SheetRow(A, Cell(GreenCream), NaN, Dims, NaN)} ELSE {})

\* The sheets of n data rows, the j-th one of SheetRows(j).
RECURSIVE SheetsOf(_)
SheetsOf(n) ==
    IF n = 0 THEN {<< >>}
    ELSE {Append(sheet, row) : sheet \in SheetsOf(n - 1), row \in SheetRows(n)}

\* The sheets of at most `rows` data rows.
Sheets(rows) == UNION {SheetsOf(n) : n \in 0..rows}

\* Lines 1027-1032: --limit takes any integer; absent, limit is None.
Limits == {<< >>} \cup {<<n>> : n \in 0..MaxLimit}

LoadInit ==
    /\ feed \in Sheets(MaxRows)
    /\ start_row \in 1..MaxStartRow
    /\ limit \in Limits
    /\ df = << >>
    /\ idx = 0
    /\ last_variation_by_listing = << >>
    /\ history_records = << >>
    /\ out_records = << >>
    /\ lpc = "read"

\* Lines 239-243: the rows with a listing_url, and the empty collections.
LoadFilter ==
    /\ lpc = "read"
    /\ df' = SelectSeq(feed, LAMBDA row : notna(row.listing_url))
    /\ lpc' = "rows"
    /\ UNCHANGED <<feed, idx, last_variation_by_listing, history_records,
                   out_records, start_row, limit, runvars, callvars>>

\* Lines 245-337: one row of the loop.
LoadRow ==
    /\ lpc = "rows"
    /\ idx < Len(df)
    /\ LET i == idx + 1
           row == df[i]
           cell == clean_cell_value(row.variation)
           record == BuildRecord(row, i, history_records, last_variation_by_listing)
           kept == IF i < start_row THEN out_records ELSE Append(out_records, record)
       IN  /\ idx' = i
           /\ last_variation_by_listing' =
                  IF cell # NoText
                  THEN Put(last_variation_by_listing, base_url_of(row.listing_url), cell)
                  ELSE last_variation_by_listing
           /\ history_records' = Append(history_records, record)
           /\ out_records' = kept
           /\ lpc' = IF i >= start_row /\ limit # << >> /\ Len(kept) >= limit[1]
                     THEN "return" ELSE "rows"
    /\ UNCHANGED <<feed, df, start_row, limit, runvars, callvars>>

\* Line 338, after the loop ended or broke.
LoadReturn ==
    /\ \/ lpc = "return"
       \/ lpc = "rows" /\ idx = Len(df)
    /\ lpc' = "returned"
    /\ UNCHANGED <<feed, df, idx, last_variation_by_listing, history_records,
                   out_records, start_row, limit, runvars, callvars>>

(***************************************************************************)
(* The functions of the module called on their own.                        *)
(***************************************************************************)
MaxBlocks == 2

OtherPayload == [kind |-> "other", entries |-> << >>]
ListPayload(entries) == [kind |-> "list", entries |-> entries]

\* The ld+json blocks of a document.
Payloads ==
    { InvalidPayload, OtherPayload,
      DictPayload(NoData),
      DictPayload([NoData EXCEPT !.availability = "http://schema.org/OutOfStock"]),
      DictPayload([NoData EXCEPT !.availability = "Discontinued", !.offers = "InStock"]),
      DictPayload([NoData EXCEPT !.availability = NonStr, !.availabilityType = "AVAILABLE"]),
      ListPayload(<<[NoData EXCEPT !.availability = "Discontinued"],
                    [NoData EXCEPT !.availability = "OutOfStock"]>>) }

Docs ==
    [ld : SeqsUpTo(Payloads, MaxBlocks),
     text : {{}, {"in stock"}, {"out of stock"}},
     raw_key : BOOLEAN,
     raw : {{}, {"UNAVAILABLE"}}]

\* The target labels of a selection.
Targets == {"Green Cream - Greekey", "60 x 110 cm", "Grey (out of stock)"}

Calls ==
    {[fn |-> "extract_base_colour", colour_text |-> t] : t \in ColourLabels}
    \cup {[fn |-> "extract_base_size", size_text |-> t] :
              t \in PlainSizes \cup Annotated \cup {Size_Imperial, Size_Popular}}
    \cup {[fn |-> "option_matches", option_text |-> a, target |-> b] :
              a \in MatchLabels, b \in MatchLabels}
    \cup {[fn |-> "detect_availability", html |-> d] : d \in Docs}
    \cup {[fn |-> "select_option_from_group", group |-> c, target_value |-> t] :
              c \in Controls, t \in Targets}
    \cup {[fn |-> "select_option_from_group.options", type |-> ty, options |-> os,
            target_value |-> "60 x 110 cm"] :
              ty \in {"select", "vim"}, os \in OptionLists}
    \cup {[fn |-> "evaluate_availability", failures |-> n, page |-> pg] :
              n \in 0..1, pg \in AvailabilityPages}
    \cup {[fn |-> "evaluate_availability", failures |-> 2,
            page |-> [messages |-> <<"Out of stock">>, button |-> "disabled"]]}
    \cup {[fn |-> "fetch_listing_html", response |-> r] : r \in Responses}
    \cup {[fn |-> "dimensions_with_group",
            record |-> [variation |-> sh[1], size |-> sh[2]], groups |-> gs] :
              sh \in Shapes, gs \in SeqsUpTo(GroupLabels, MaxGroups)}

CallInit ==
    /\ call \in Calls
    /\ ret = << >>
    /\ fpc = "call"

CallIdle ==
    /\ call = [fn |-> "none"]
    /\ ret = << >>
    /\ fpc = "idle"

Returns(value) ==
    /\ fpc = "call"
    /\ ret' = value
    /\ fpc' = "done"
    /\ UNCHANGED <<call, runvars, loadvars>>

CallExtractBaseColour ==
    /\ call.fn = "extract_base_colour"
    /\ Returns(extract_base_colour(call.colour_text))

CallExtractBaseSize ==
    /\ call.fn = "extract_base_size"
    /\ Returns(extract_base_size(call.size_text))

CallOptionMatches ==
    /\ call.fn = "option_matches"
    /\ Returns(option_matches(call.option_text, call.target))

CallDetectAvailability ==
    /\ call.fn = "detect_availability"
    /\ Returns(detect_availability(call.html))

\* Lines 945-955: select_option_from_group and, when it failed, the status
\* the visit takes (availability is BLOCKED, line 889, until then).
CallSelectOption ==
    /\ call.fn = "select_option_from_group"
    /\ LET r == select_option_from_group(call.group, call.target_value)
       IN  Returns([ok |-> r.ok, failure_reason |-> r.reason,
                    availability |-> IF r.ok THEN "BLOCKED"
                                     ELSE SelectionFailureStatus(r.reason),
                    gestures |-> Gestures(call.group, call.target_value)])

\* Lines 907-936: the groups of the page assigned to the dimensions of a
\* descriptor.
CallDimensionsWithGroup ==
    /\ call.fn = "dimensions_with_group"
    /\ Returns(dimensions_with_group(call.record, call.groups))

\* Lines 445-458: fetch_listing_html and the status the attempt takes, from
\* the detector or from the except clause that catches what was raised.
CallFetchListingHtml ==
    /\ call.fn = "fetch_listing_html"
    /\ LET fetched == fetch_listing_html(call.response)
       IN  Returns([raised |-> IF fetched = "text" THEN None ELSE fetched,
                    availability |->
                        IF fetched = "text" THEN detect_availability(call.response.doc)
                        ELSE HandlerStatus(IF fetched = "ChallengeDetected"
                                           THEN fetched ELSE "Exception")])

\* Lines 655-674 and 716-768: select_option_from_group on a control given by
\* the list of its options; chosen_option is the option its scan stopped at
\* and selected_option the one it selected or clicked, 0 for none.
CallSelectFromOptions ==
    /\ call.fn = "select_option_from_group.options"
    /\ LET r == select_option_from_group(ControlOf(call.type, call.options),
                                         call.target_value)
           chosen == ChosenOption(call.type, call.options)
       IN  Returns([ok |-> r.ok, failure_reason |-> r.reason,
                    chosen_option |-> chosen,
                    selected_option |-> IF r.ok THEN chosen ELSE 0])

\* Lines 973-974: evaluate_availability on a page whose script raises
\* call.failures times before page.evaluate returns, and the error_message
\* the visit keeps.
CallEvaluateAvailability ==
    /\ call.fn = "evaluate_availability"
    /\ LET text == AvailabilityScript(call.page)
           ev == [first |-> IF call.failures = 0 THEN text ELSE Raises,
                  second |-> IF call.failures = 1 THEN text
                             ELSE IF call.failures = 2 THEN Raises ELSE None]
           r == evaluate_availability(ev)
       IN  Returns([availability |-> r[1], availability_detail |-> r[2],
                    error_message |-> EvaluatedError(r[1], r[2])])

CallNext ==
    \/ CallExtractBaseColour
    \/ CallExtractBaseSize
    \/ CallOptionMatches
    \/ CallDetectAvailability
    \/ CallSelectOption
    \/ CallDimensionsWithGroup
    \/ CallFetchListingHtml
    \/ CallSelectFromOptions
    \/ CallEvaluateAvailability

\* The loader at rest while a run is followed, and the run at rest while a
\* load is followed.
LoadIdle ==
    /\ feed = << >>
    /\ df = << >>
    /\ idx = 0
    /\ last_variation_by_listing = << >>
    /\ history_records = << >>
    /\ out_records = << >>
    /\ start_row = 1
    /\ limit = << >>
    /\ lpc = "idle"

RunIdle ==
    /\ engine = "requests"
    /\ max_retries = 0
    /\ records = << >>
    /\ pc = "idle"
    /\ index = 0
    /\ attempts = 0
    /\ availability = "BLOCKED"
    /\ error_message = NoMessage
    /\ results = << >>
    /\ paced = 0
    /\ session = "none"
    /\ page_closed = FALSE
    /\ dims = << >>
    /\ k = 0
    /\ used_indices = {}
    /\ last_outcome = "none"
    /\ all_challenge = TRUE
    /\ sel_log = << >>
    /\ disabled_at = 0
    /\ exhausted_at = FALSE

LoadNext ==
    \/ LoadFilter
    \/ LoadRow
    \/ LoadReturn

LoadStart == LoadInit /\ RunIdle /\ CallIdle

LoadSpec == LoadStart /\ [][LoadNext]_vars

CallStart == CallInit /\ RunIdle /\ LoadIdle

CallSpec == CallStart /\ [][CallNext]_vars

Init == RunInit /\ LoadIdle /\ CallIdle

Next ==
    \/ ReqNext
    \/ ReqAttempt
    \/ ReqExhausted
    \/ ReqEmit
    \/ ReqReturn
    \/ ChrOpen
    \/ ChrNext
    \/ ChrNavigate
    \/ ChrSkipUsed
    \/ ChrSelect
    \/ ChrEvaluate
    \/ ChrExhausted
    \/ ChrEmit
    \/ ChrClose
    \/ PlaywrightExit

Spec == Init /\ [][Next]_vars

(***************************************************************************)
(* Properties of the run.                                                  *)
(***************************************************************************)
Terminal == pc \in {"returned", "raised"}

\* The page/session was opened (the static engine is handed its session).
Acquired == engine = "requests" \/ session # "none"

\* The row of the current descriptor has been appended.
JustEmitted == index > 0 /\ Len(results) = index

Statuses == {"IN_STOCK", "OUT_OF_STOCK", "BLOCKED", "ERROR", "UNKNOWN"}

\* C1: when the function has ended (the page or session having been opened),
\* results holds one row per descriptor, the i-th carrying the i-th
\* descriptor's row_index.
C1_OneRowPerDescriptor ==
    (Terminal /\ Acquired) =>
        /\ Len(results) = Len(records)
        /\ \A i \in 1..Len(results) : results[i].row_index = records[i].row_index

\* C2: a descriptor all of whose 1 + max_retries attempts raised
\* ChallengeDetected gets a BLOCKED row, and when some descriptor was so
\* exhausted the run still ends with a row for every descriptor.
C2_BlockedThenContinue ==
    /\ (JustEmitted /\ all_challenge /\ attempts = max_retries + 1)
           => results[index].detected_status = "BLOCKED"
    /\ (Terminal /\ exhausted_at) => Len(results) = Len(records)

\* C3: once the page or session is open every descriptor is attempted, and a
\* descriptor whose retry loop is over had between 1 and 1 + max_retries
\* attempts, exactly 1 + max_retries when its attempts all raised.
C3_AttemptBounds ==
    /\ (Terminal /\ Acquired) => index = Len(records)
    /\ (index > 0 /\ pc \notin {"while", "select", "evaluate"}) =>
           /\ attempts \in 1..(max_retries + 1)
           /\ last_outcome \in Exceptions => attempts = max_retries + 1

\* C4: the row of a descriptor whose attempts were exhausted without a
\* success carries the status and the message of its final attempt: BLOCKED
\* after ChallengeDetected, ERROR after any other exception.
C4_LastAttemptWins ==
    (JustEmitted /\ last_outcome \in Exceptions) =>
        LET row == results[index]
            url == records[index].listing_url
        IN  /\ attempts = max_retries + 1
            /\ row.detected_status =
                   (IF last_outcome = "ChallengeDetected" THEN "BLOCKED" ELSE "ERROR")
            /\ row.error =
                   (IF last_outcome = "ChallengeDetected"
                    THEN IF engine = "requests"
                         THEN <<"Bot challenge detected for ", url>>
                         ELSE <<"Bot challenge page encountered">>
                    ELSE IF engine = "chromium" /\ last_outcome = "PlaywrightTimeoutError"
                         THEN <<"Timeout: ", ExcText>>
                         ELSE <<ExcText>>)

\* A descriptor exhausted by a challenge after an earlier attempt had
\* recorded ERROR.
C4_Witness ==
    /\ JustEmitted /\ last_outcome = "ChallengeDetected" /\ ~all_challenge
    /\ attempts = 2
    /\ results[index].detected_status = "BLOCKED"

C6_StatusEnumerated ==
    \A i \in 1..Len(results) : results[i].detected_status \in Statuses

\* Rows of both a static determination and an UNKNOWN.
C6_Witness ==
    /\ Len(results) = 2
    /\ results[1].detected_status = "UNKNOWN"
    /\ results[2].detected_status = "OUT_OF_STOCK"

\* C7: once the page or session is open, no failure leaves the function.
C7_NothingEscapes ==
    pc \in {"unwind", "raised"} => session = "none"

\* C8: when process_variants_chromium has ended, by return or by an
\* exception, the session it opened is closed.
C8_SessionReleased ==
    (engine = "chromium" /\ Terminal) => session # "open"

\* The descriptor loop ended early by an exception, the session closed.
C8_Witness ==
    /\ engine = "chromium" /\ pc = "raised" /\ index > 0
    /\ index < Len(records)
    /\ session = "closed"

\* C9: once the first selection of a visit met a matched option with a
\* disabled marker, no further selection or attempt is made for the
\* descriptor, and its row is OUT_OF_STOCK with an error.
C9_DisabledShortCircuits ==
    disabled_at > 0 =>
        /\ attempts = disabled_at
        /\ Len(sel_log) = 1
        /\ pc \notin {"while", "select", "evaluate"}
        /\ JustEmitted =>
               /\ results[index].detected_status = "OUT_OF_STOCK"
               /\ results[index].error # NoMessage

\* A visit that had two selections planned and stopped at the first.
C9_Witness ==
    /\ JustEmitted /\ disabled_at > 0
    /\ sel_log[1].planned = 2
    /\ results[index].detected_status = "OUT_OF_STOCK"

(***************************************************************************)
(* Properties of the load.                                                 *)
(***************************************************************************)
\* The rows of df in which the word w was written, as colour or in the name.
RowsWriting(w) ==
    {j \in 1..Len(df) :
        \/ \E p \in 1..Len(df[j].variation.text) : df[j].variation.text[p] = w
        \/ \E p \in 1..Len(df[j].stock_name.text) : df[j].stock_name.text[p] = w}

\* C10: the colour of a descriptor whose colour cell is empty was written in
\* its own row or in an earlier row of the same listing_url, and in no row
\* of another listing_url and no later row.
C10_InheritanceStaysInListing ==
    \A n \in 1..Len(out_records) :
        LET D == out_records[n]
        IN  (clean_cell_value(df[D.row_index].variation) = NoText /\ D.variation # NoText) =>
                /\ RowsWriting(D.variation[1]) # {}
                /\ \A j \in RowsWriting(D.variation[1]) :
                       /\ j <= D.row_index
                       /\ base_url_of(df[j].listing_url) = D.listing_url

\* A returned descriptor that inherited a colour across a row of another
\* listing that had a colour of its own.
C10_Witness ==
    /\ lpc = "returned"
    /\ \E n \in 1..Len(out_records) :
           LET D == out_records[n]
           IN  /\ clean_cell_value(df[D.row_index].variation) = NoText
               /\ D.variation # NoText
               /\ \E j \in 1..(D.row_index - 1) :
                      /\ base_url_of(df[j].listing_url) # D.listing_url
                      /\ clean_cell_value(df[j].variation) # NoText
               /\ \E j \in 1..(D.row_index - 1) : j \in RowsWriting(D.variation[1])

\* The descriptors built before D for rows of the same listing_url.
EarlierInListing(D) ==
    {m \in 1..(D.row_index - 1) : history_records[m].listing_url = D.listing_url}

\* C11: a descriptor with an empty colour cell, built after a descriptor of
\* the same listing_url that has a colour, has a colour: that of such an
\* earlier descriptor, or one read out of a product name of the listing.
C11_ColourInheritedInGroup ==
    \A n \in 1..Len(out_records) :
        LET D == out_records[n]
            coloured == {m \in EarlierInListing(D) : history_records[m].variation # NoText}
            named == {ExtractColour(clean_cell_value(df[j].stock_name)) :
                         j \in EarlierInListing(D) \cup {D.row_index}}
        IN  (clean_cell_value(df[D.row_index].variation) = NoText /\ coloured # {}) =>
                /\ D.variation # NoText
                /\ \/ \E m \in coloured : D.variation = history_records[m].variation
                   \/ D.variation \in named

\* The rows before row i of the same listing_url whose colour cell is filled.
FilledBefore(i) ==
    {j \in 1..(i - 1) :
        /\ base_url_of(df[j].listing_url) = base_url_of(df[i].listing_url)
        /\ clean_cell_value(df[j].variation) # NoText}

\* C12: a descriptor whose colour cell is empty carries the colour cell of
\* the latest earlier row of its listing_url that has one; three rows of one
\* listing, the first with "Green Cream - Greekey" and the next two empty,
\* give three descriptors with that colour.
C12_LastSeenColour ==
    /\ \A n \in 1..Len(history_records) :
           (clean_cell_value(df[n].variation) = NoText /\ FilledBefore(n) # {}) =>
               history_records[n].variation =
                   clean_cell_value(df[CHOOSE j \in FilledBefore(n) :
                                          \A h \in FilledBefore(n) : h <= j].variation)
    /\ ( /\ Len(history_records) >= 3
         /\ clean_cell_value(df[1].variation) = GreenCream
         /\ \A n \in 2..3 : /\ clean_cell_value(df[n].variation) = NoText
                            /\ base_url_of(df[n].listing_url) = base_url_of(df[1].listing_url) )
       => \A n \in 1..3 : history_records[n].variation = GreenCream

\* The three rows of the example, loaded and returned.
C12_Witness ==
    /\ lpc = "returned" /\ Len(out_records) = 3
    /\ clean_cell_value(df[1].variation) = GreenCream
    /\ \A n \in 2..3 : /\ clean_cell_value(df[n].variation) = NoText
                       /\ clean_cell_value(df[n].dimensions) # NoText
                       /\ base_url_of(df[n].listing_url) = base_url_of(df[1].listing_url)
    /\ \A n \in 1..3 : out_records[n].variation = GreenCream

\* C13: every descriptor returned has a listing_url that is not empty.
C13_ListingUrlNonEmpty ==
    \A n \in 1..Len(out_records) : out_records[n].listing_url # ""

(***************************************************************************)
(* Properties of the functions called on their own.                        *)
(***************************************************************************)
Done(f) == fpc = "done" /\ call.fn = f

\* C14: extract_base_colour gives "pink" for "GelBack-Pink", "Gel Back-Pink",
\* "GelBack Pink" and "Pink - Gel Back 59".
C14_BaseColourOfPrefixForms ==
    (Done("extract_base_colour")
     /\ call.colour_text \in {GelBack_Pink, Gel_Back_Pink, GelBack_space_Pink, Pink_Gel_Back_59})
        => ret = pink

\* C15: for a size label s with no parenthesis and no adornment,
\* extract_base_size of s followed by an imperial annotation in parentheses
\* is extract_base_size of s.
C15_AnnotationDropped ==
    Done("extract_base_size") =>
        /\ \A s \in PlainSizes, a \in Annotations :
               call.size_text = s \o <<" ">> \o a => ret = extract_base_size(s)
        /\ call.size_text = Size_Imperial => ret = extract_base_size(Size_60_x_110_cm)

\* "60 x 110 cm (1 ft 11 in x 3 ft 7 in)" reduced to "60 x 110 cm".
C15_Witness ==
    /\ Done("extract_base_size")
    /\ call.size_text = Size_Imperial
    /\ ret = Size_60_x_110_cm

\* C16: option_matches("60x110cm", "60 x 110 cm") is true, size-shaped
\* labels equal but for their spaces match, and
\* option_matches("Pink - Gel Back 59", "Beige") is false.
C16_SizeSpacesIgnored ==
    Done("option_matches") =>
        /\ (call.option_text = Size_60x110cm /\ call.target = Size_60_x_110_cm) => ret = TRUE
        /\ (call.option_text = Pink_Gel_Back_59 /\ call.target = Beige) => ret = FALSE
        /\ ( /\ SizeShaped(call.option_text) /\ SizeShaped(call.target)
             /\ Remove(call.option_text, <<" ">>) = Remove(call.target, <<" ">>) ) => ret = TRUE

\* The call on "60x110cm" and "60 x 110 cm", answered true.
C16_Witness ==
    /\ Done("option_matches")
    /\ call.option_text = Size_60x110cm /\ call.target = Size_60_x_110_cm
    /\ ret = TRUE

\* C17: option_matches(a, b) equals option_matches(b, a).
C17_MatchSymmetric ==
    Done("option_matches") => ret = option_matches(call.target, call.option_text)

\* The ld+json blocks of the called document that carry a known availability.
Carrying == {i \in 1..Len(call.html.ld) : PayloadAvailability(call.html.ld[i]) # None}

\* C18: when a structured-data block carries a known availability value,
\* detect_availability returns the status of the first such block whatever
\* the visible text; a block with "http://schema.org/OutOfStock" first gives
\* OUT_OF_STOCK.
C18_StructuredDataFirst ==
    Done("detect_availability") =>
        /\ Carrying # {} => ret = PayloadAvailability(call.html.ld[Min(Carrying)])
        /\ ( /\ Carrying # {}
             /\ call.html.ld[Min(Carrying)] =
                    DictPayload([NoData EXCEPT !.availability = "http://schema.org/OutOfStock"]) )
           => ret = "OUT_OF_STOCK"

\* A document whose block says OutOfStock and whose text says "in stock".
C18_Witness ==
    /\ Done("detect_availability")
    /\ call.html.ld = <<DictPayload([NoData EXCEPT !.availability = "http://schema.org/OutOfStock"])>>
    /\ call.html.text = {"in stock"}
    /\ ret = "OUT_OF_STOCK"

\* C19: after an attempt of a descriptor completed without raising, no
\* further attempt is made for it, its status is left alone, and the row
\* appended for it carries that status.
C19_SuccessStops ==
    [][(last_outcome = "ok" /\ index' = index) =>
           /\ attempts' = attempts
           /\ availability' = availability
           /\ pc' \notin {"while", "select", "evaluate"}
           /\ Len(results') > Len(results) => results'[index].detected_status = availability]_vars

\* A row appended after a clean first attempt, retries still allowed.
C19_Witness ==
    /\ JustEmitted /\ last_outcome = "ok"
    /\ attempts = 1 /\ max_retries >= 1
    /\ results[index].detected_status = availability

\* C20: a failed selection gives OUT_OF_STOCK exactly when the matched
\* option carries a disabled marker, and ERROR otherwise, whatever the
\* target label.
C20_FailureClassified ==
    (Done("select_option_from_group") /\ ~ret.ok) =>
        /\ ret.availability \in {"OUT_OF_STOCK", "ERROR"}
        /\ ret.availability = "OUT_OF_STOCK" <=> DisabledMarker(call.group)

(***************************************************************************)
(* Properties of the interactive visit.                                    *)
(***************************************************************************)
\* The dimensions a descriptor requests: its non-empty colour and size.
Requested(record) ==
    {t \in {"variation", "size"} :
        IF t = "variation" THEN record.variation # None ELSE record.size # None}

\* C21: the availability evaluation of an interactive visit is reached only
\* when every dimension the descriptor requests had an option selected in a
\* group during the visit.
C21_EvaluatedOnlyAfterAllSelected ==
    (engine = "chromium" /\ pc = "evaluate") =>
        Len(sel_log) = Cardinality(Requested(records[index]))

\* C22: on a page with at least two groups, the colour and the size of one
\* descriptor are assigned different groups.
C22_DistinctGroups ==
    (Done("dimensions_with_group") /\ Len(call.groups) >= 2) =>
        \A i, j \in 1..Len(ret) : i # j => ret[i].group_idx # ret[j].group_idx

\* C23: the selections of one visit are made in ascending order of group
\* index, whichever dimension each group serves, and no group is selected
\* in twice.
C23_SelectionsInPageOrder ==
    \A i, j \in 1..Len(sel_log) : i < j => sel_log[i].group_idx < sel_log[j].group_idx

\* Two selections made, the size in the first group and the colour in the
\* second.
C23_Witness ==
    /\ engine = "chromium" /\ pc = "evaluate"
    /\ Len(sel_log) = 2 /\ Len(dims) = 2
    /\ dims[1].dim_type = "size" /\ dims[2].dim_type = "variation"
    /\ sel_log[1].group_idx = dims[1].group_idx
    /\ sel_log[2].group_idx = dims[2].group_idx

\* The visit that ended the descriptor's attempts failed with a missing
\* selector control or with a timeout (of a page wait or of the option click).
MismatchOrTimeout ==
    \/ /\ last_outcome = "selection_failed"
       /\ error_message[1] \in {"Variant selector button missing",
                                "Timeout clicking option '"}
    \/ last_outcome = "PlaywrightTimeoutError"

\* C24: an interactive visit that fails with a structural mismatch or with a
\* timeout is retried while retry budget remains: the descriptor's attempts
\* end on such a failure only when the budget is used up.
C24_MismatchAndTimeoutRetried ==
    (engine = "chromium" /\ pc = "emit" /\ MismatchOrTimeout) =>
        attempts = max_retries + 1

(***************************************************************************)
(* Properties of the load: the size and the colour table.                  *)
(***************************************************************************)
\* C25: the size of a descriptor is its dimensions field when present, else
\* its pack/type field; when the value so chosen is a placeholder and the
\* other field is present, the size is the other field's value.
C25_SizeFallsBackFromPlaceholder ==
    \A n \in 1..Len(history_records) :
        LET dimensions == clean_cell_value(df[n].dimensions)
            pack_type == clean_cell_value(df[n].pack_type)
            chosen == IF dimensions # NoText THEN dimensions ELSE pack_type
            other == IF dimensions # NoText THEN pack_type ELSE dimensions
        IN  history_records[n].size =
                IF IsPlaceholder(chosen) /\ other # NoText THEN other ELSE chosen

\* The rows up to row i of listing_url u whose colour cell is filled.
FilledUpTo(i, u) ==
    {j \in 1..i :
        /\ base_url_of(df[j].listing_url) = u
        /\ clean_cell_value(df[j].variation) # NoText}

\* C26 as stated: once a listing_url has an entry in the last-seen-colour
\* table, no later row changes that entry.
C26_TableWrittenOnce ==
    [][\A u \in DOMAIN last_variation_by_listing :
          last_variation_by_listing'[u] = last_variation_by_listing[u]]_vars

\* C26, amended: the table entry of a listing_url is written by every row of
\* the listing whose colour cell is filled, each write replacing the one
\* before: after any number of rows the entry is the colour cell of the
\* latest such row, and a listing_url with no such row has no entry.
C26_TableHoldsLatestColour ==
    lpc \in {"rows", "return", "returned"} =>
        /\ \A j \in 1..idx :
               LET u == base_url_of(df[j].listing_url)
                   filled == FilledUpTo(idx, u)
               IN  IF filled = {} THEN u \notin DOMAIN last_variation_by_listing
                   ELSE /\ u \in DOMAIN last_variation_by_listing
                        /\ last_variation_by_listing[u] =
                               clean_cell_value(df[CHOOSE m \in filled :
                                                      \A h \in filled : h <= m].variation)
        /\ \A u \in DOMAIN last_variation_by_listing : FilledUpTo(idx, u) # {}

\* A listing with two filled colour cells, both rows built: its entry is the
\* second colour, not the first.
C26_Witness ==
    /\ lpc = "rows"
    /\ \E i, j \in 1..idx :
           LET u == base_url_of(df[i].listing_url)
           IN  /\ i < j
               /\ {i, j} \subseteq FilledUpTo(idx, u)
               /\ last_variation_by_listing[u] = clean_cell_value(df[j].variation)
               /\ last_variation_by_listing[u] # clean_cell_value(df[i].variation)

(***************************************************************************)
(* Properties of the static fetch.                                         *)
(***************************************************************************)
\* The bodies that hold a challenge marker, in whatever case.
ChallengeBodies == {"Pardon Our Interruption", "Security CAPTCHA"}

\* C27: a response whose status is not 200 fails the attempt as a fetch
\* error with status ERROR, challenge markers in its body or not; the
\* Challenge condition is raised exactly for a 200 response whose text holds
\* a challenge marker, in whatever case, and gives BLOCKED.
C27_Non200IsFetchError ==
    Done("fetch_listing_html") =>
        /\ call.response.status_code # 200 =>
               ret.raised = "HTTPError" /\ ret.availability = "ERROR"
        /\ ret.raised = "ChallengeDetected" <=>
               (call.response.status_code = 200 /\ call.response.body \in ChallengeBodies)
        /\ ret.raised = "ChallengeDetected" => ret.availability = "BLOCKED"

\* A 503 response whose body holds a challenge marker, fetched: an ERROR.
C27_Witness ==
    /\ Done("fetch_listing_html")
    /\ call.response.status_code = 503
    /\ call.response.body = "Security CAPTCHA"
    /\ ret.raised = "HTTPError" /\ ret.availability = "ERROR"

\* C28: an interactive visit on which a challenge was detected made no group
\* selection and no availability evaluation, and its attempt is recorded as
\* BLOCKED (the challenge is looked for right after navigation, before the
\* groups are collected).
C28_ChallengeBeforeDiscovery ==
    (engine = "chromium" /\ last_outcome = "ChallengeDetected"
        /\ pc \notin {"select", "evaluate"}) =>
        /\ sel_log = << >>
        /\ dims = << >>
        /\ availability = "BLOCKED"

\* A descriptor asking for a colour and a size whose two visits both met a
\* challenge.
C28_Witness ==
    /\ engine = "chromium" /\ pc = "emit"
    /\ last_outcome = "ChallengeDetected"
    /\ attempts = 2
    /\ Cardinality(Requested(records[index])) = 2
    /\ sel_log = << >> /\ availability = "BLOCKED"

(***************************************************************************)
(* Properties of the option scan.                                          *)
(***************************************************************************)
NotFound(target_value) == <<"Variant value '", target_value, "' not found">>

\* C29: in a native select the first option, in order, whose text matches
\* the target decides: it is selected when enabled, and when it is disabled
\* the selection fails with "Option disabled" whatever follows it; with no
\* matching option the selection fails as not found and selects nothing.
C29_NativeFirstMatchDecides ==
    (Done("select_option_from_group.options") /\ call.type = "select") =>
        LET matching == {i \in 1..Len(call.options) : call.options[i].text_match}
        IN  IF matching = {}
            THEN /\ ~ret.ok /\ ret.selected_option = 0
                 /\ ret.failure_reason = NotFound(call.target_value)
            ELSE IF call.options[Min(matching)].disabled
            THEN /\ ~ret.ok /\ ret.selected_option = 0
                 /\ ret.failure_reason = <<"Option disabled">>
            ELSE ret.ok /\ ret.selected_option = Min(matching)

\* A native select whose first matching option is disabled and whose second
\* matches and is enabled: the selection failed with "Option disabled".
C29_Witness ==
    /\ Done("select_option_from_group.options") /\ call.type = "select"
    /\ Len(call.options) = 2
    /\ call.options[1].text_match /\ call.options[1].disabled
    /\ call.options[2].text_match /\ ~call.options[2].disabled
    /\ ~ret.ok /\ ret.failure_reason = <<"Option disabled">>

\* C30: in a popup listbox the option chosen is the first one matching by
\* data-sku-value-name whenever there is one, even after an option that
\* matches by text alone; the first option matching by text is chosen only
\* when none matches by the data attribute.
C30_DataAttributePreferred ==
    (Done("select_option_from_group.options") /\ call.type = "vim") =>
        LET by_data == {i \in 1..Len(call.options) : call.options[i].data_match}
            by_text == {i \in 1..Len(call.options) : call.options[i].text_match}
        IN  /\ by_data # {} => ret.chosen_option = Min(by_data)
            /\ (by_data = {} /\ by_text # {}) => ret.chosen_option = Min(by_text)
            /\ (by_data = {} /\ by_text = {}) =>
                   /\ ret.chosen_option = 0 /\ ~ret.ok
                   /\ ret.failure_reason = NotFound(call.target_value)

\* A popup whose first option matches by text alone and whose second matches
\* by its data attribute: the second was chosen and clicked.
C30_Witness ==
    /\ Done("select_option_from_group.options") /\ call.type = "vim"
    /\ Len(call.options) = 2
    /\ call.options[1].text_match /\ ~call.options[1].data_match
    /\ call.options[2].data_match /\ ~call.options[2].disabled
    /\ ret.chosen_option = 2 /\ ret.ok /\ ret.selected_option = 2

\* C31: when select_option_from_group returns a failure for a popup control
\* whose popup it had opened, the last thing it did was to close the popup
\* with Escape, and it selected no option.
C31_PopupClosedOnFailure ==
    (Done("select_option_from_group") /\ call.group.type # "select"
        /\ ~ret.ok /\ ret.gestures # << >>) =>
        /\ ret.gestures[1] = "button.click"
        /\ ret.gestures[Len(ret.gestures)] = "Escape"
        /\ \A i \in 1..Len(ret.gestures) :
               ret.gestures[i] \notin {"option.click", "select_option"}

\* A click on the chosen option that timed out, the popup closed after it.
C31_Witness ==
    /\ Done("select_option_from_group") /\ call.group.type = "vim"
    /\ call.group.click_timeout /\ ~ret.ok
    /\ ret.gestures = <<"button.click", "option.click timed out", "Escape">>

(***************************************************************************)
(* Properties of evaluate_availability.                                    *)
(***************************************************************************)
\* The availability messages of the page that are not blank.
Shown(page) ==
    {i \in 1..Len(page.messages) : page.messages[i] \notin {"", Blank}}

\* C32: evaluate_availability decides from the first availability message
\* that is not empty, in the order of the selectors, and from the purchase
\* button only when there is no such message: "out of stock" or
\* "unavailable" in the message, or a disabled button, give OUT_OF_STOCK;
\* any other message, an enabled button, or no signal give IN_STOCK.
C32_FirstMessageDecides ==
    (Done("evaluate_availability") /\ call.failures = 0) =>
        IF Shown(call.page) # {}
        THEN LET message == call.page.messages[Min(Shown(call.page))]
             IN  /\ ret.availability_detail = message
                 /\ ret.availability =
                        IF message \in {"Out of stock", "Currently unavailable"}
                        THEN "OUT_OF_STOCK" ELSE "IN_STOCK"
        ELSE ret.availability =
                 IF call.page.button = "disabled" THEN "OUT_OF_STOCK" ELSE "IN_STOCK"

\* A blank message, then one that is neither "out of stock" nor
\* "unavailable", over a disabled purchase button: IN_STOCK.
C32_Witness ==
    /\ Done("evaluate_availability") /\ call.failures = 0
    /\ call.page.messages = <<Blank, "Last one">>
    /\ call.page.button = "disabled"
    /\ ret.availability = "IN_STOCK"

\* C33: when the script fails twice in a row the visit ends as IN_STOCK
\* with no detail and no error, evaluate_availability returning normally;
\* when it fails once and the second evaluation succeeds, the result is
\* that of the second evaluation.
C33_TwoFailuresInStock ==
    Done("evaluate_availability") =>
        /\ call.failures = 2 =>
               /\ ret.availability = "IN_STOCK"
               /\ ret.availability_detail = None
               /\ ret.error_message = NoMessage
        /\ call.failures = 1 =>
               /\ ret.availability_detail = AvailabilityScript(call.page)
               /\ (Shown(call.page) # {}
                     /\ call.page.messages[Min(Shown(call.page))] = "Out of stock") =>
                      /\ ret.availability = "OUT_OF_STOCK"
                      /\ ret.error_message = <<"Out of stock">>

\* The script failed twice on a page that says "Out of stock": IN_STOCK.
C33_Witness ==
    /\ Done("evaluate_availability") /\ call.failures = 2
    /\ call.page.messages = <<"Out of stock">>
    /\ ret.availability = "IN_STOCK" /\ ret.error_message = NoMessage

(***************************************************************************)
(* Properties of detect_availability.                                      *)
(***************************************************************************)
\* The sequence q without its i-th element.
Without(q, i) == SubSeq(q, 1, i - 1) \o SubSeq(q, i + 1, Len(q))

C35_RawFallbackByToken ==
    (Done("detect_availability") /\ Carrying = {} /\ call.html.text = {}
        /\ call.html.raw_key /\ call.html.raw # {}) =>
        /\ call.html.raw \subseteq {"OutOfStock", "http://schema.org/OutOfStock", "UNAVAILABLE"}
               => ret = "OUT_OF_STOCK"
        /\ call.html.raw \subseteq {"InStock", "http://schema.org/InStock", "AVAILABLE"}
               => ret = "IN_STOCK"

(***************************************************************************)
(* Pacing between descriptors.                                             *)
(***************************************************************************)
\* C36: in both modes exactly one pacing sleep of the base delay is made
\* between the result of a descriptor and the first attempt of the next,
\* whatever the result, and none after the result of the last descriptor.
C36_OnePacingSleepBetween ==
    /\ (pc = "while" /\ attempts = 0) => (Len(results) = index - 1 /\ paced = index - 1)
    /\ (pc = "for" /\ index > 0) =>
           (Len(results) = index /\ paced = IF index < Len(records) THEN index ELSE index - 1)
    /\ (pc = "returned" /\ records # << >>) => paced = Len(records) - 1

\* The interactive engine is about to visit the second descriptor after a
\* BLOCKED first one, one pacing sleep made.
C36_Witness ==
    /\ engine = "chromium" /\ pc = "while" /\ attempts = 0 /\ index = 2
    /\ results[1].detected_status = "BLOCKED"
    /\ paced = 1

(***************************************************************************)
(* Row numbers and the start_row, limit window.                            *)
(***************************************************************************)
\* The positions in the feed of the rows that have a listing_url.
UrlRows == {j \in 1..Len(feed) : notna(feed[j].listing_url)}

\* The position in the feed of the i-th row that has a listing_url.
FeedPosition(i) == CHOOSE j \in UrlRows : Cardinality({m \in UrlRows : m <= j}) = i

\* C37: the excel_row of every descriptor is the sheet row it was built
\* from: k + 2 for the k-th data row of the feed, also when earlier rows of
\* the feed were dropped for having no listing_url.
C37_ExcelRowIsFeedRow ==
    \A j \in 1..Len(out_records) :
        out_records[j].excel_row = FeedPosition(out_records[j].row_index) + 2

(***************************************************************************)
(* The error of a row whose last attempt completed.                        *)
(***************************************************************************)
\* The messages the except clauses leave for the descriptor being checked.
HandlerMessages ==
    {HandlerMessage(engine, exc, records[index].listing_url) : exc \in Exceptions}

\* C38: a row carries no error left by an earlier failed attempt: when the
\* last attempt of a descriptor completed after failed ones, the row's error
\* is empty in the static mode, and in the interactive mode it is empty or
\* the detail of the OUT_OF_STOCK that attempt evaluated.
C38_NoStaleError ==
    (JustEmitted /\ last_outcome = "ok" /\ attempts > 1) =>
        /\ results[index].error \notin HandlerMessages
        /\ engine = "requests" => results[index].error = NoMessage
        /\ results[index].error # NoMessage =>
               results[index].detected_status = "OUT_OF_STOCK"

\* The interactive engine failed the first attempt, then evaluated the page
\* as in stock at the second: the row has no error.
C38_Witness ==
    /\ engine = "chromium" /\ JustEmitted /\ last_outcome = "ok" /\ attempts = 2
    /\ results[index].detected_status = "IN_STOCK"
    /\ results[index].error = NoMessage

\* The descriptors the loop of lines 245-332 builds for the rows of df from
\* position i on, after those of history and with the colour table `table`.
RECURSIVE BuiltFrom(_, _, _)
BuiltFrom(i, history, table) ==
    IF i > Len(df) THEN history
    ELSE LET cell == clean_cell_value(df[i].variation)
         IN  BuiltFrom(i + 1, Append(history, BuildRecord(df[i], i, history, table)),
                       IF cell # NoText
                       THEN Put(table, base_url_of(df[i].listing_url), cell)
                       ELSE table)

\* C39: with start_row = s and limit = n the loader returns the descriptors
\* of the rows s, s+1, ... that have a URL, at most n of them, each as it is
\* built when every row is returned: the rows before start_row are built
\* too and pass their colour on.
C39_WindowOfAllRows ==
    lpc = "returned" =>
        LET all == BuiltFrom(1, << >>, << >>)
            n == IF limit = << >> THEN Len(all) ELSE limit[1]
        IN  out_records = SubSeq(all, start_row, Min({Len(all), start_row + n - 1}))

====
